---- MODULE Spec2Model ----
(***************************************************************************)
(* A model of array_view.hpp: array_view<T>, its bound random-access       *)
(* iterator array_iterator_base, strided_array_view<T, OffsetBytes,        *)
(* StrideBytes>, and the operations on them.                               *)
(*                                                                         *)
(* size_type is an unsigned integer of SizeBits bits; every size_type      *)
(* computation is taken modulo 2^SizeBits.  A pointer is an element        *)
(* address in the same range, 0 being nullptr.  The caller owns one buffer *)
(* of BufLen elements of type bool at addresses BufBase .. BufBase+BufLen-1*)
(* (BufBase+BufLen is its one-past-the-end address).                       *)
(***************************************************************************)
EXTENDS Integers, Sequences, FiniteSets, TLC

VARIABLES
    checked,    \* the build configuration: ARRAY_VIEW_DEBUG_CHECKS nonzero
    mem,        \* the caller's buffer: address -> element
    view,       \* the array_view objects: name -> [ptr, size]
    iter,       \* the iterator objects: name -> [parent, index]
    strided,    \* the strided_array_view object: [ptr, size_in_bytes, offset, stride]
    res         \* the last call: its operation, operands and outcome

vars == <<checked, mem, view, iter, strided, res>>

\* Width of std::size_t in the model.
SizeBits == 3
\* Number of elements of the caller's buffer.
BufLen == 3

Modulus == 2 ^ SizeBits
SizeT == 0 .. (Modulus - 1)

NullPtr == 0
BufBase == NullPtr + 1
BufEnd == BufBase + BufLen
BufAddrs == BufBase .. (BufEnd - 1)

ViewIds == {"a", "b"}
IterIds == {"i", "j"}
\* The parent of a default-constructed iterator (m_parent_array == nullptr).
NoParent == "nullptr"

\* The messages handed to ARRAY_VIEW_ERROR.
MsgNullOrEmpty == "array_view pointer is null or size is zero!"
MsgAtOutOfBounds == "array_view::at(): index is out-of-bounds!"
MsgSubscriptOutOfBounds == "array_view::operator[]: index is out-of-bounds!"
MsgSliceZeroSize == "array_view slice with zero size!"
MsgSliceOffset == "array_view slice offset greater or equal size!"
MsgSliceSize == "array_view slice size is greater than total size!"
MsgDifferentParents == "Array iterators belong to different objects!"
MsgIncrementInvalid == "Incrementing an invalid array iterator!"
MsgDecrementInvalid == "Decrementing an invalid array iterator!"
MsgNotDereferenceable == "array_iterator_base::operator*: iterator not dereferenceable!"
MsgArrowNotDereferenceable == "array_iterator_base::operator->: iterator not dereferenceable!"
MsgStridedNull == "strided_array_view: null pointer!"
MsgStridedAtOutOfBounds == "strided_array_view::at(): index is out-of-bounds!"
MsgStridedSubscriptOutOfBounds == "strided_array_view::operator[]: index is out-of-bounds!"

\* Outcomes of a call: a normal return, ARRAY_VIEW_ERROR (abort or throw), or
\* undefined behaviour (val is then whatever the build happens to produce).
NoVal == "no value"
Ok(x) == [kind |-> "ok", msg |-> "", val |-> x]
Err(m) == [kind |-> "error", msg |-> m, val |-> NoVal]
UB(x) == [kind |-> "ub", msg |-> "", val |-> x]

\* Unsigned (size_type) and pointer arithmetic.
SizeAdd(x, y) == (x + y) % Modulus
SizeSub(x, y) == (x - y + Modulus) % Modulus
PtrAdd(p, n) == (p + n) % Modulus
SizeMul(x, y) == (x * y) % Modulus

(***************************************************************************)
(* array_view                                                              *)
(***************************************************************************)
MkView(p, n) == [ptr |-> p, size |-> n]

\* array_view(): m_pointer{ nullptr }, m_size_in_items{ 0 }
DefaultView == MkView(NullPtr, 0)

data(v) == v.ptr
size(v) == v.size
empty(v) == size(v) = 0

check_not_null(v) ==
    IF data(v) = NullPtr \/ empty(v) THEN Err(MsgNullOrEmpty) ELSE Ok(NoVal)

(***************************************************************************)
(* strided_array_view<T, OffsetBytes, StrideBytes>.  Its pointer is a byte *)
(* address and its size a number of bytes; OffsetBytes and StrideBytes are *)
(* fixed by its type.  T occupies one byte.                                *)
(***************************************************************************)
MkStrided(p, b, o, s) ==
    [ptr |-> p, size_in_bytes |-> b, offset_bytes |-> o, stride_bytes |-> s]

\* strided_array_view(): m_pointer{ nullptr }, m_size_in_bytes{ 0 }
DefaultStrided(o, s) == MkStrided(NullPtr, 0, o, s)

\* strided_array_view(StructuredType * array_ptr, size_in_items), with
\* sizeof(StructuredType) == struct_bytes.
strided_ctor(array_ptr, size_in_items, struct_bytes, o, s) ==
    MkStrided(array_ptr, SizeMul(size_in_items, struct_bytes), o, s)

strided_data(v) == v.ptr
size_bytes(v) == v.size_in_bytes
stride_bytes(v) == v.stride_bytes
offset_bytes(v) == v.offset_bytes

\* size(): size_bytes() / stride_bytes()
strided_size(v) == size_bytes(v) \div stride_bytes(v)

\* get_item_raw_ptr(index) leaving out offset_bytes().
get_item_raw_ptr_no_offset(v, index) ==
    Ok(PtrAdd(v.ptr, SizeMul(index, stride_bytes(v))))

\* get_item_raw_ptr(index): never checked.
get_item_raw_ptr(v, index) ==
    Ok(PtrAdd(PtrAdd(v.ptr, SizeMul(index, stride_bytes(v))), offset_bytes(v)))

\* *reinterpret_cast<pointer>(get_item_raw_ptr(index)): the element at that
\* address, undefined unless m_pointer + index * stride + offset is a byte of
\* the structures the view was constructed over.
strided_element(v, index) ==
    IF /\ v.ptr # NullPtr
       /\ v.ptr + SizeMul(index, stride_bytes(v)) + offset_bytes(v) < v.ptr + size_bytes(v)
    THEN get_item_raw_ptr(v, index)
    ELSE UB(NoVal)

\* strided at(index) validating under ARRAY_VIEW_DEBUG_CHECKS only.
strided_at_debug_checks_only(v, index) ==
    IF checked /\ strided_data(v) = NullPtr
    THEN Err(MsgStridedNull)
    ELSE IF checked /\ index >= strided_size(v)
    THEN Err(MsgStridedAtOutOfBounds)
    ELSE strided_element(v, index)

\* at(index): always validates the bounds.
strided_at(v, index) ==
    IF strided_data(v) = NullPtr
    THEN Err(MsgStridedNull)
    ELSE IF index >= strided_size(v)
    THEN Err(MsgStridedAtOutOfBounds)
    ELSE strided_element(v, index)

\* operator[](index): validated with ARRAY_VIEW_DEBUG_CHECKS only.
strided_subscript(v, index) ==
    IF checked /\ strided_data(v) = NullPtr
    THEN Err(MsgStridedNull)
    ELSE IF checked /\ index >= strided_size(v)
    THEN Err(MsgStridedSubscriptOutOfBounds)
    ELSE strided_element(v, index)

\* front(): operator[](0)
strided_front(v) == strided_subscript(v, 0)

\* back(): operator[](size() - 1)
strided_back(v) == strided_subscript(v, SizeSub(strided_size(v), 1))

\* slice(offset, count) without item_count == 0 in its early return.
slice_no_zero_shortcut(v, offset_in_items, item_count) ==
    IF data(v) = NullPtr \/ empty(v)
    THEN Ok(DefaultView)
    ELSE IF checked /\ item_count = 0
    THEN Err(MsgSliceZeroSize)
    ELSE IF checked /\ offset_in_items >= size(v)
    THEN Err(MsgSliceOffset)
    ELSE IF checked /\ SizeAdd(offset_in_items, item_count) > size(v)
    THEN Err(MsgSliceSize)
    ELSE Ok(MkView(PtrAdd(v.ptr, offset_in_items), item_count))

\* slice(offset, count) returning { m_pointer, item_count }.
slice_drops_offset(v, offset_in_items, item_count) ==
    IF data(v) = NullPtr \/ empty(v) \/ item_count = 0
    THEN Ok(DefaultView)
    ELSE IF checked /\ offset_in_items >= size(v)
    THEN Err(MsgSliceOffset)
    ELSE IF checked /\ SizeAdd(offset_in_items, item_count) > size(v)
    THEN Err(MsgSliceSize)
    ELSE Ok(MkView(v.ptr, item_count))

\* slice(offset, count) without the offset + count > size() test.
slice_no_size_check(v, offset_in_items, item_count) ==
    IF data(v) = NullPtr \/ empty(v) \/ item_count = 0
    THEN Ok(DefaultView)
    ELSE IF checked /\ offset_in_items >= size(v)
    THEN Err(MsgSliceOffset)
    ELSE Ok(MkView(PtrAdd(v.ptr, offset_in_items), item_count))

\* slice(offset_in_items, item_count); its tests after the early return are
\* compiled in with ARRAY_VIEW_DEBUG_CHECKS only.
slice(v, offset_in_items, item_count) ==
    IF data(v) = NullPtr \/ empty(v) \/ item_count = 0
    THEN Ok(DefaultView)
    ELSE IF checked /\ item_count = 0
    THEN Err(MsgSliceZeroSize)
    ELSE IF checked /\ offset_in_items >= size(v)
    THEN Err(MsgSliceOffset)
    ELSE IF checked /\ SizeAdd(offset_in_items, item_count) > size(v)
    THEN Err(MsgSliceSize)
    ELSE Ok(MkView(PtrAdd(v.ptr, offset_in_items), item_count))

\* slice(offset) delegating with size() instead of size() - offset.
slice_from_whole_size(v, offset_in_items) ==
    IF data(v) = NullPtr \/ empty(v)
    THEN Ok(DefaultView)
    ELSE IF checked /\ offset_in_items >= size(v)
    THEN Err(MsgSliceOffset)
    ELSE slice(v, offset_in_items, size(v))

\* slice(offset_in_items)
slice_from(v, offset_in_items) ==
    IF data(v) = NullPtr \/ empty(v)
    THEN Ok(DefaultView)
    ELSE IF checked /\ offset_in_items >= size(v)
    THEN Err(MsgSliceOffset)
    ELSE slice(v, offset_in_items, SizeSub(size(v), offset_in_items))

\* at(index) validating under ARRAY_VIEW_DEBUG_CHECKS only, like operator[].
at_debug_checks_only(v, index) ==
    IF checked /\ check_not_null(v).kind = "error"
    THEN check_not_null(v)
    ELSE IF checked /\ index >= size(v)
    THEN Err(MsgAtOutOfBounds)
    ELSE Ok(PtrAdd(data(v), index))

\* at(index): the reference returned is the address data() + index.
at(v, index) ==
    IF check_not_null(v).kind = "error"
    THEN check_not_null(v)
    ELSE IF index >= size(v)
    THEN Err(MsgAtOutOfBounds)
    ELSE Ok(PtrAdd(data(v), index))

\* operator[](index): validated only when ARRAY_VIEW_DEBUG_CHECKS is nonzero;
\* otherwise *(data() + index) whatever data() and index are, which is
\* undefined unless that address is an element of the caller's buffer.
subscript(v, index) ==
    IF checked /\ check_not_null(v).kind = "error"
    THEN check_not_null(v)
    ELSE IF checked /\ index >= size(v)
    THEN Err(MsgSubscriptOutOfBounds)
    ELSE IF data(v) # NullPtr /\ (data(v) + index) \in BufAddrs
    THEN Ok(data(v) + index)
    ELSE UB(NoVal)

\* The outcomes a call can have: undefined behaviour yields any value of S.
Outcomes(o, S) == IF o.kind = "ub" THEN { UB(x) : x \in S } ELSE { o }

NoRes == [op |-> "none", in |-> <<>>, out |-> Ok(NoVal)]

(***************************************************************************)
(* The const member functions of one view, each applied to a view the      *)
(* two-argument constructor accepts (any pointer, any count whose range    *)
(* does not wrap around the address space).                                *)
(***************************************************************************)
InputViews == { MkView(p, n) : p \in SizeT, n \in SizeT }

InitAccess ==
    /\ checked \in BOOLEAN
    /\ mem = [x \in BufAddrs |-> FALSE]
    /\ \E v \in { w \in InputViews : w.ptr + w.size <= Modulus } :
          view = [x \in ViewIds |-> IF x = "a" THEN v ELSE DefaultView]
    /\ iter = [x \in IterIds |-> [parent |-> NoParent, index |-> 0]]
    /\ strided = DefaultStrided(0, 1)
    /\ res = NoRes

At(index) ==
    /\ res.op = "none"
    /\ res' = [op |-> "at", in |-> <<view["a"], index>>, out |-> at(view["a"], index)]
    /\ UNCHANGED <<checked, mem, strided, view, iter>>

Subscript(index) ==
    /\ res.op = "none"
    /\ \E o \in Outcomes(subscript(view["a"], index), SizeT) :
          res' = [op |-> "subscript", in |-> <<view["a"], index>>, out |-> o]
    /\ UNCHANGED <<checked, mem, strided, view, iter>>

SliceFrom(offset) ==
    /\ res.op = "none"
    /\ res' = [op |-> "slice_from", in |-> <<view["a"], offset>>,
               out |-> slice_from(view["a"], offset)]
    /\ UNCHANGED <<checked, mem, strided, view, iter>>

Slice(offset, count) ==
    /\ res.op = "none"
    /\ res' = [op |-> "slice", in |-> <<view["a"], offset, count>>,
               out |-> slice(view["a"], offset, count)]
    /\ UNCHANGED <<checked, mem, strided, view, iter>>

\* The caller takes the result and goes on to its next call.
Return ==
    /\ res.op # "none"
    /\ res' = NoRes
    /\ UNCHANGED <<checked, mem, strided, view, iter>>

NextAccess ==
    \/ \E index \in SizeT : At(index)
    \/ \E index \in SizeT : Subscript(index)
    \/ \E offset \in SizeT : SliceFrom(offset)
    \/ \E offset \in SizeT, count \in SizeT : Slice(offset, count)
    \/ Return

SpecAccess == InitAccess /\ [][NextAccess]_vars

(***************************************************************************)
(* Claims about at() and slice(), checked under SpecAccess.                *)
(***************************************************************************)
IsOk(o, x) == o.kind = "ok" /\ o.val = x
IsErr(o, m) == o.kind = "error" /\ o.msg = m
NonNullNonEmpty(v) == data(v) # NullPtr /\ size(v) > 0
\* r lies inside v: [r.ptr, r.ptr + r.size) is within [v.ptr, v.ptr + v.size).
Inside(r, v) == data(v) <= data(r) /\ data(r) + size(r) <= data(v) + size(v)
SameOutcome(x, y) ==
    \/ x.kind = "error" /\ y.kind = "error"
    \/ x.kind = "ok" /\ y.kind = "ok" /\ x.val = y.val

\* C1: at(i) validates in both build configurations: on a null or empty view
\* it signals NullAccess ("pointer is null or size is zero"), otherwise with
\* i >= size() it signals OutOfBounds, otherwise it returns the element at
\* address base + i; a returned address is always inside [base, base + size),
\* and the view is left as it was.
C1_AtAlwaysValidates ==
    res.op = "at" =>
        LET v == res.in[1]
            i == res.in[2]
        IN  /\ (data(v) = NullPtr \/ size(v) = 0) => IsErr(res.out, MsgNullOrEmpty)
            /\ (NonNullNonEmpty(v) /\ i >= size(v)) => IsErr(res.out, MsgAtOutOfBounds)
            /\ (NonNullNonEmpty(v) /\ i < size(v)) => IsOk(res.out, data(v) + i)
            /\ res.out.kind \in {"ok", "error"}
            /\ res.out.kind = "ok" =>
                  data(v) <= res.out.val /\ res.out.val < data(v) + size(v)
            /\ view["a"] = v

\* C1 witness: with the debug checks compiled out, at() on a non-empty view
\* was called with an index past its end and signalled OutOfBounds.
C1_Witness ==
    /\ res.op = "at"
    /\ ~checked
    /\ NonNullNonEmpty(res.in[1])
    /\ res.in[2] > size(res.in[1])
    /\ IsErr(res.out, MsgAtOutOfBounds)

\* C2: on a non-null view of size N > 0, slice(o, c) with o < N, c >= 1 and
\* o + c <= N returns a view of size c at pointer + o, whose element i is the
\* element o + i of the view, and leaves the view unchanged.
C2_SliceIsSubview ==
    res.op = "slice" =>
        LET v == res.in[1]
            o == res.in[2]
            c == res.in[3]
        IN  (NonNullNonEmpty(v) /\ o < size(v) /\ c >= 1 /\ o + c <= size(v)) =>
                /\ res.out.kind = "ok"
                /\ size(res.out.val) = c
                /\ data(res.out.val) = data(v) + o
                /\ \A i \in 0 .. (c - 1) :
                      /\ at(res.out.val, i).kind = "ok"
                      /\ at(v, o + i).kind = "ok"
                      /\ at(res.out.val, i).val = at(v, o + i).val
                      /\ IsOk(subscript(res.out.val, i), data(v) + o + i)
                           <=> IsOk(subscript(v, o + i), data(v) + o + i)
                /\ view["a"] = v

\* C2 witness: a proper sub-view (offset > 0, two or more elements, not
\* reaching the end) was sliced out of a view.
C2_Witness ==
    /\ res.op = "slice"
    /\ NonNullNonEmpty(res.in[1])
    /\ res.in[2] > 0
    /\ res.in[3] >= 2
    /\ res.in[2] + res.in[3] < size(res.in[1])
    /\ res.out.kind = "ok"

\* C3: slice(o, 0) returns a view of size 0 and signals nothing, whatever the
\* view and the offset, in both build configurations; no call ever signals
\* "array_view slice with zero size!".
C3_ZeroCountShortCircuits ==
    /\ (res.op = "slice" /\ res.in[3] = 0) =>
          /\ res.out.kind = "ok"
          /\ size(res.out.val) = 0
    /\ res.out.msg # MsgSliceZeroSize

\* C3 witness: with the debug checks on, slice(o, 0) was called on a
\* non-empty view with an offset past its end, and returned.
C3_Witness ==
    /\ res.op = "slice"
    /\ checked
    /\ NonNullNonEmpty(res.in[1])
    /\ res.in[2] > size(res.in[1])
    /\ res.in[3] = 0
    /\ res.out.kind = "ok"

\* C4 as claimed: in both build configurations, on a non-null non-empty view
\* of size N, slice(o) with o >= N signals OutOfBounds, slice(o, c) with c > 0
\* and (o >= N or o + c > N) signals MalformedSlice, and neither returns a
\* view extending outside the view.
C4_Original ==
    res.op \in {"slice_from", "slice"} =>
        LET v == res.in[1]
            o == res.in[2]
        IN  NonNullNonEmpty(v) =>
              /\ (res.op = "slice_from" /\ o >= size(v)) =>
                    IsErr(res.out, MsgSliceOffset)
              /\ (res.op = "slice" /\ res.in[3] > 0
                    /\ (o >= size(v) \/ o + res.in[3] > size(v))) =>
                    (IsErr(res.out, MsgSliceOffset) \/ IsErr(res.out, MsgSliceSize))
              /\ (res.out.kind = "ok" /\ size(res.out.val) > 0) =>
                    Inside(res.out.val, v)

\* C4 as amended: the bound validation of slice is compiled in only with the
\* debug checks.  With them, on a non-null non-empty view of size N, slice(o)
\* with o >= N signals "offset greater or equal size", and slice(o, c) with
\* c > 0 signals it for o >= N and signals "size is greater than total size"
\* for o < N and (o + c) mod 2^SizeBits > N; a call that returns a non-empty
\* view, o + c not wrapping around, returns one inside the view.  Without
\* them neither call signals anything: slice(o, c) with c > 0 returns
\* (pointer + o, c) and slice(o) returns slice(o, (N - o) mod 2^SizeBits).
C4_SliceValidatesWhenChecked ==
    res.op \in {"slice_from", "slice"} =>
        LET v == res.in[1]
            o == res.in[2]
        IN  NonNullNonEmpty(v) =>
              /\ (checked /\ res.op = "slice_from" /\ o >= size(v)) =>
                    IsErr(res.out, MsgSliceOffset)
              /\ (checked /\ res.op = "slice" /\ res.in[3] > 0 /\ o >= size(v)) =>
                    IsErr(res.out, MsgSliceOffset)
              /\ (checked /\ res.op = "slice" /\ res.in[3] > 0 /\ o < size(v)
                    /\ (o + res.in[3]) % Modulus > size(v)) =>
                    IsErr(res.out, MsgSliceSize)
              /\ (checked /\ res.out.kind = "ok" /\ size(res.out.val) > 0
                    /\ (res.op = "slice" => o + res.in[3] < Modulus)) =>
                    Inside(res.out.val, v)
              /\ (~checked /\ res.op = "slice" /\ res.in[3] > 0) =>
                    IsOk(res.out, MkView((data(v) + o) % Modulus, res.in[3]))
              /\ (~checked /\ res.op = "slice_from") =>
                    /\ res.out.kind = "ok"
                    /\ (o # size(v)) =>
                          res.out.val = MkView((data(v) + o) % Modulus,
                                               (size(v) - o + Modulus) % Modulus)
                    /\ (o = size(v)) => res.out.val = DefaultView

\* C4 witness: with the debug checks on, slice(o, c) with o inside the view
\* and o + c past its end signalled "size is greater than total size".
C4_Witness ==
    /\ res.op = "slice"
    /\ checked
    /\ NonNullNonEmpty(res.in[1])
    /\ res.in[2] < size(res.in[1])
    /\ res.in[2] + res.in[3] > size(res.in[1])
    /\ IsErr(res.out, MsgSliceSize)

\* C5 as claimed: for every view of size N and every offset o <= N, slice(o)
\* and slice(o, N - o) have the same outcome (the same view, or both an error).
C5_Original ==
    (res.op = "slice_from" /\ res.in[2] <= size(res.in[1])) =>
        SameOutcome(res.out,
                    slice(res.in[1], res.in[2], size(res.in[1]) - res.in[2]))

\* C5 as amended: slice(o) and slice(o, N - o) have the same outcome for every
\* o < N, for every o <= N on a null or empty view, and for every o <= N
\* without the debug checks; with the debug checks, on a non-null non-empty
\* view, slice(N) signals "offset greater or equal size" while slice(N, 0)
\* returns the empty (null) view.
C5_SliceFromAgreesBelowSize ==
    (res.op = "slice_from" /\ res.in[2] <= size(res.in[1])) =>
        LET v == res.in[1]
            o == res.in[2]
            two == slice(v, o, size(v) - o)
        IN  /\ (o < size(v) \/ ~NonNullNonEmpty(v) \/ ~checked) =>
                  SameOutcome(res.out, two)
            /\ (o = size(v) /\ NonNullNonEmpty(v) /\ checked) =>
                  /\ IsErr(res.out, MsgSliceOffset)
                  /\ IsOk(two, DefaultView)

\* C5 witness: slice(o) with 0 < o < N returned a view on a non-empty view.
C5_Witness ==
    /\ res.op = "slice_from"
    /\ NonNullNonEmpty(res.in[1])
    /\ res.in[2] > 0
    /\ res.in[2] < size(res.in[1])
    /\ res.out.kind = "ok"
    /\ size(res.out.val) > 0

\* C14 as claimed: with the debug checks, every slice(o, c) with c > 0 on a
\* non-null non-empty view of size N that returns yields a view inside the
\* view, o < N and o + c <= N without wrap-around; whenever o + c exceeds N
\* the call signals, for all o, c of size_type.
C14_CheckedSliceStaysInside ==
    (checked /\ res.op = "slice" /\ NonNullNonEmpty(res.in[1]) /\ res.in[3] > 0) =>
        LET v == res.in[1]
            o == res.in[2]
            c == res.in[3]
        IN  /\ res.out.kind = "ok" => (o < size(v) /\ o + c <= size(v))
            /\ o + c > size(v) => res.out.kind = "error"

(***************************************************************************)
(* The view objects under their constructors and mutating operations.      *)
(***************************************************************************)
\* What a caller passes to array_view(array_ptr, size_in_items): nullptr or
\* a pointer into (or one past) its buffer, and a count that stays in the
\* buffer when the pointer is not null.  The constructor stores both as given.
PtrCountArgs ==
    { <<p, n>> \in ({NullPtr} \cup (BufBase .. BufEnd)) \X (0 .. BufLen) :
          p # NullPtr => p + n <= BufEnd }

\* What a standard container gives for data() and size(): an empty container
\* (data() null or not) or its first n elements' storage.
ContainerArgs ==
    {<<NullPtr, 0>>} \cup { <<BufBase, n>> : n \in 0 .. BufLen }

Init ==
    /\ checked \in BOOLEAN
    /\ mem = [x \in BufAddrs |-> FALSE]
    /\ view = [x \in ViewIds |-> DefaultView]
    /\ iter = [x \in IterIds |-> [parent |-> NoParent, index |-> 0]]
    /\ strided = DefaultStrided(0, 1)
    /\ res = NoRes

\* array_view()
DefaultConstruct(x) ==
    /\ view' = [view EXCEPT ![x] = DefaultView]
    /\ res' = NoRes
    /\ UNCHANGED <<checked, mem, strided, iter>>

\* array_view(ArrayType (&arr)[ArraySize])
ConstructArray(x) ==
    /\ view' = [view EXCEPT ![x] = MkView(BufBase, BufLen)]
    /\ res' = NoRes
    /\ UNCHANGED <<checked, mem, strided, iter>>

\* array_view(ContainerType & container)
ConstructContainer(x, args) ==
    /\ view' = [view EXCEPT ![x] = MkView(args[1], args[2])]
    /\ res' = NoRes
    /\ UNCHANGED <<checked, mem, strided, iter>>

\* array_view(ConvertibleType * array_ptr, size_type size_in_items)
ConstructPtrCount(x, args) ==
    /\ view' = [view EXCEPT ![x] = MkView(args[1], args[2])]
    /\ res' = NoRes
    /\ UNCHANGED <<checked, mem, strided, iter>>

\* array_view(array_view<ConvertibleType> other) and
\* operator=(array_view<ConvertibleType> other)
Assign(x, y) ==
    /\ view' = [view EXCEPT ![x] = MkView(data(view[y]), size(view[y]))]
    /\ res' = NoRes
    /\ UNCHANGED <<checked, mem, strided, iter>>

\* reset()
Reset(x) ==
    /\ view' = [view EXCEPT ![x] = MkView(NullPtr, 0)]
    /\ res' = NoRes
    /\ UNCHANGED <<checked, mem, strided, iter>>

\* swap(array_view & lhs, array_view & rhs)
SwapViews(x, y) ==
    /\ view' = [view EXCEPT ![x] = view[y], ![y] = view[x]]
    /\ res' = NoRes
    /\ UNCHANGED <<checked, mem, strided, iter>>

\* x = y.slice(offset): the assignment happens when slice returns.
AssignSliceFrom(x, y, offset) ==
    LET o == slice_from(view[y], offset)
    IN  /\ view' = IF o.kind = "ok" THEN [view EXCEPT ![x] = o.val] ELSE view
        /\ res' = [op |-> "slice_from", in |-> <<>>, out |-> [o EXCEPT !.val = NoVal]]
        /\ UNCHANGED <<checked, mem, strided, iter>>

\* x = y.slice(offset, count)
AssignSlice(x, y, offset, count) ==
    LET o == slice(view[y], offset, count)
    IN  /\ view' = IF o.kind = "ok" THEN [view EXCEPT ![x] = o.val] ELSE view
        /\ res' = [op |-> "slice", in |-> <<>>, out |-> [o EXCEPT !.val = NoVal]]
        /\ UNCHANGED <<checked, mem, strided, iter>>

Next ==
    \/ \E x \in ViewIds : DefaultConstruct(x)
    \/ \E x \in ViewIds : ConstructArray(x)
    \/ \E x \in ViewIds, args \in ContainerArgs : ConstructContainer(x, args)
    \/ \E x \in ViewIds, args \in PtrCountArgs : ConstructPtrCount(x, args)
    \/ \E x \in ViewIds, y \in ViewIds : Assign(x, y)
    \/ \E x \in ViewIds : Reset(x)
    \/ \E x \in ViewIds, y \in ViewIds : SwapViews(x, y)
    \/ \E x \in ViewIds, y \in ViewIds, offset \in 0 .. BufLen :
          AssignSliceFrom(x, y, offset)
    \/ \E x \in ViewIds, y \in ViewIds, offset \in 0 .. BufLen, count \in 0 .. BufLen :
          AssignSlice(x, y, offset, count)

Spec == Init /\ [][Next]_vars

\* C7 as claimed: in every state reached by the constructors, the converting
\* assignment, reset, slice and swap, a view whose pointer is null has size 0.
C7_NullViewHasZeroCount ==
    \A x \in ViewIds : data(view[x]) = NullPtr => size(view[x]) = 0

(***************************************************************************)
(* array_iterator_base.  An iterator holds a pointer to its parent view    *)
(* object (here the view's name, or NoParent) and a difference_type index. *)
(* Iterator indices are kept within IndexRange by the callers' guards, so  *)
(* no difference_type computation of the model overflows.                  *)
(***************************************************************************)
MkIter(parent, index) == [parent |-> parent, index |-> index]

\* array_iterator_base(): m_parent_array{ nullptr }, m_current_index{ 0 }
DefaultIter == MkIter(NoParent, 0)

IndexRange == (0 - 1) .. (BufLen + 1)

\* size_type -> difference_type and back (static_cast).
ToDiff(n) == IF 2 * n >= Modulus THEN n - Modulus ELSE n
ToSize(i) == ((i % Modulus) + Modulus) % Modulus

\* make_iterator dropping start_offset.
make_iterator_at_zero(x, start_offset) ==
    IF data(view[x]) # NullPtr THEN MkIter(x, 0) ELSE DefaultIter

\* make_iterator / make_const_iterator(start_offset) of view object x
make_iterator(x, start_offset) ==
    IF data(view[x]) # NullPtr THEN MkIter(x, start_offset) ELSE DefaultIter

begin(x) == make_iterator(x, 0)
end(x) == make_iterator(x, ToDiff(size(view[x])))

is_dereferenceable(it) ==
    /\ it.parent # NoParent
    /\ it.index >= 0
    /\ ToSize(it.index) < size(view[it.parent])

\* The buffer an iterator's parent views (nullptr for no parent).
ParentData(it) == IF it.parent = NoParent THEN NullPtr ELSE data(view[it.parent])

\* check_same_parent comparing the buffers viewed, not the view objects.
check_same_buffer(it, other) ==
    IF ParentData(it) # ParentData(other) THEN Err(MsgDifferentParents) ELSE Ok(NoVal)

\* check_same_parent(other): the parents are compared as objects.
check_same_parent(it, other) ==
    IF it.parent # other.parent THEN Err(MsgDifferentParents) ELSE Ok(NoVal)

\* increment(displacement), the body of operator+=, operator++ and operator+
increment(it, displacement) ==
    IF checked /\ it.parent = NoParent
    THEN Err(MsgIncrementInvalid)
    ELSE Ok(MkIter(it.parent, it.index + displacement))

\* decrement(displacement), the body of operator-=, operator-- and operator-
decrement(it, displacement) ==
    IF checked /\ it.parent = NoParent
    THEN Err(MsgDecrementInvalid)
    ELSE Ok(MkIter(it.parent, it.index - displacement))

\* operator* with no is_dereferenceable() test in either configuration.
deref_never_checked(it) ==
    IF it.parent = NoParent
    THEN UB(NoVal)
    ELSE subscript(view[it.parent], ToSize(it.index))

\* operator*: the address of the element referred to.
deref(it) ==
    IF checked /\ ~is_dereferenceable(it)
    THEN Err(MsgNotDereferenceable)
    ELSE IF it.parent = NoParent
    THEN UB(NoVal)
    ELSE subscript(view[it.parent], ToSize(it.index))

\* operator==(const array_iterator_base & other)
iter_eq(it, other) ==
    IF checked /\ check_same_parent(it, other).kind = "error"
    THEN check_same_parent(it, other)
    ELSE Ok(it.index = other.index)

Negate(o) == IF o.kind = "ok" THEN Ok(~o.val) ELSE o

\* operator!=(const array_iterator_base & other)
iter_ne(it, other) == Negate(iter_eq(it, other))

(***************************************************************************)
(* array_view::operator== and operator!=                                   *)
(***************************************************************************)
\* std::equal(first1, last1, first2): while first1 != last1, compare
\* *first1 with *first2 and step both.  reads collects the addresses read.
RECURSIVE std_equal(_, _, _, _)
std_equal(first1, last1, first2, reads) ==
    LET more == iter_ne(first1, last1)
        d1 == deref(first1)
        d2 == deref(first2)
        n1 == increment(first1, 1)
        n2 == increment(first2, 1)
    IN  IF more.kind # "ok"
        THEN [out |-> more, reads |-> reads]
        ELSE IF ~more.val
        THEN [out |-> Ok(TRUE), reads |-> reads]
        ELSE IF d1.kind = "ub" \/ d2.kind = "ub"
        THEN [out |-> UB(NoVal), reads |-> reads]
        ELSE IF d1.kind = "error"
        THEN [out |-> d1, reads |-> reads]
        ELSE IF d2.kind = "error"
        THEN [out |-> d2, reads |-> reads]
        ELSE IF mem[d1.val] # mem[d2.val]
        THEN [out |-> Ok(FALSE), reads |-> reads \cup {d1.val, d2.val}]
        ELSE IF n1.kind # "ok"
        THEN [out |-> n1, reads |-> reads \cup {d1.val, d2.val}]
        ELSE IF n2.kind # "ok"
        THEN [out |-> n2, reads |-> reads \cup {d1.val, d2.val}]
        ELSE std_equal(n1.val, last1, n2.val, reads \cup {d1.val, d2.val})

\* operator== testing the sizes before the addresses.
view_eq_size_first(x, y) ==
    IF size(view[x]) # size(view[y])
    THEN [out |-> Ok(FALSE), reads |-> {}]
    ELSE IF data(view[x]) = data(view[y])
    THEN [out |-> Ok(TRUE), reads |-> {}]
    ELSE std_equal(begin(x), end(x), begin(y), {})

\* operator==(const array_view & other), this being view x and other view y
view_eq(x, y) ==
    IF data(view[x]) = data(view[y])
    THEN [out |-> Ok(TRUE), reads |-> {}]
    ELSE IF size(view[x]) # size(view[y])
    THEN [out |-> Ok(FALSE), reads |-> {}]
    ELSE std_equal(begin(x), end(x), begin(y), {})

\* operator!=(const array_view & other)
view_ne(x, y) == [out |-> Negate(view_eq(x, y).out), reads |-> view_eq(x, y).reads]

InitEq ==
    /\ checked \in BOOLEAN
    /\ mem \in [BufAddrs -> BOOLEAN]
    /\ view = [x \in ViewIds |-> DefaultView]
    /\ iter = [x \in IterIds |-> DefaultIter]
    /\ strided = DefaultStrided(0, 1)
    /\ res = NoRes

\* x == y
Equal(x, y) ==
    /\ \E o \in Outcomes(view_eq(x, y).out, BOOLEAN) :
          res' = [op |-> "==", in |-> <<view[x], view[y]>>, out |-> o,
                  reads |-> view_eq(x, y).reads]
    /\ UNCHANGED <<checked, mem, strided, view, iter>>

\* x != y
NotEqual(x, y) ==
    /\ \E o \in Outcomes(view_ne(x, y).out, BOOLEAN) :
          res' = [op |-> "!=", in |-> <<view[x], view[y]>>, out |-> o,
                  reads |-> view_ne(x, y).reads]
    /\ UNCHANGED <<checked, mem, strided, view, iter>>

NextEq ==
    \/ \E x \in ViewIds, args \in PtrCountArgs : ConstructPtrCount(x, args)
    \/ \E x \in ViewIds, y \in ViewIds : Equal(x, y)
    \/ \E x \in ViewIds, y \in ViewIds : NotEqual(x, y)

SpecEq == InitEq /\ [][NextEq]_vars

\* A view over the caller's buffer: the null view of size 0, or a non-null
\* view all of whose elements are elements of the buffer.
OverBuffer(v) ==
    \/ data(v) = NullPtr /\ size(v) = 0
    \/ data(v) # NullPtr /\ \A k \in 0 .. (size(v) - 1) : (data(v) + k) \in BufAddrs

\* The reference rule: same address, or same size and equal elements.
RefEqual(a, b) ==
    \/ data(a) = data(b)
    \/ /\ size(a) = size(b)
       /\ \A k \in 0 .. (size(a) - 1) : mem[data(a) + k] = mem[data(b) + k]

iter_plus(it, displacement) == increment(it, displacement)

\* operator-(displacement): a copy of the iterator, decremented.
iter_minus(it, displacement) == decrement(it, displacement)

\* operator-(const array_iterator_base & other)
iter_diff(it, other) ==
    IF checked /\ check_same_parent(it, other).kind = "error"
    THEN check_same_parent(it, other)
    ELSE Ok(it.index - other.index)

\* operator<
iter_lt(it, other) ==
    IF checked /\ check_same_parent(it, other).kind = "error"
    THEN check_same_parent(it, other)
    ELSE Ok(it.index < other.index)

\* operator>
iter_gt(it, other) ==
    IF checked /\ check_same_parent(it, other).kind = "error"
    THEN check_same_parent(it, other)
    ELSE Ok(it.index > other.index)

\* operator<= and operator>=
iter_le(it, other) == Negate(iter_gt(it, other))
iter_ge(it, other) == Negate(iter_lt(it, other))

\* swap(lhs, rhs) exchanging m_current_index only.
iter_swap_index_only(lhs, rhs) ==
    <<MkIter(lhs.parent, rhs.index), MkIter(rhs.parent, lhs.index)>>

\* swap(lhs, rhs): the new <<lhs, rhs>>.
iter_swap(lhs, rhs) ==
    <<MkIter(rhs.parent, rhs.index), MkIter(lhs.parent, lhs.index)>>

CompareOps == {"it==", "it!=", "it<", "it>", "it<=", "it>="}

compare(op, it, other) ==
    CASE op = "it==" -> iter_eq(it, other)
      [] op = "it!=" -> iter_ne(it, other)
      [] op = "it<" -> iter_lt(it, other)
      [] op = "it>" -> iter_gt(it, other)
      [] op = "it<=" -> iter_le(it, other)
      [] op = "it>=" -> iter_ge(it, other)

\* data() and size() of an empty container: data() may be null or not.
EmptyContainerArgs == {<<NullPtr, 0>>, <<BufBase, 0>>}

InitIter ==
    /\ checked \in BOOLEAN
    /\ mem = [x \in BufAddrs |-> FALSE]
    /\ view = [x \in ViewIds |-> DefaultView]
    /\ iter = [x \in IterIds |-> DefaultIter]
    /\ strided = DefaultStrided(0, 1)
    /\ res = NoRes

\* i = x.begin()
Begin(i, x) ==
    /\ iter' = [iter EXCEPT ![i] = begin(x)]
    /\ res' = NoRes
    /\ UNCHANGED <<checked, mem, strided, view>>

\* i = x.end()
End(i, x) ==
    /\ iter' = [iter EXCEPT ![i] = end(x)]
    /\ res' = NoRes
    /\ UNCHANGED <<checked, mem, strided, view>>

\* i = j + displacement
Plus(i, j, displacement) ==
    LET o == iter_plus(iter[j], displacement)
    IN  /\ (iter[j].index + displacement) \in IndexRange
        /\ iter' = IF o.kind = "ok" THEN [iter EXCEPT ![i] = o.val] ELSE iter
        /\ res' = [op |-> "it+", in |-> <<iter[j], displacement>>, out |-> o]
        /\ UNCHANGED <<checked, mem, strided, view>>

\* i = j - displacement
Minus(i, j, displacement) ==
    LET o == iter_minus(iter[j], displacement)
    IN  /\ (iter[j].index - displacement) \in IndexRange
        /\ iter' = IF o.kind = "ok" THEN [iter EXCEPT ![i] = o.val] ELSE iter
        /\ res' = [op |-> "it-k", in |-> <<iter[j], displacement>>, out |-> o]
        /\ UNCHANGED <<checked, mem, strided, view>>

\* i - j
Difference ==
    /\ res' = [op |-> "it-", in |-> <<iter["i"], iter["j"]>>,
               out |-> iter_diff(iter["i"], iter["j"])]
    /\ UNCHANGED <<checked, mem, strided, view, iter>>

\* i == j, i != j, i < j, i > j, i <= j, i >= j
Compare(op) ==
    /\ res' = [op |-> op, in |-> <<iter["i"], iter["j"]>>,
               out |-> compare(op, iter["i"], iter["j"])]
    /\ UNCHANGED <<checked, mem, strided, view, iter>>

\* swap(i, j)
SwapIters ==
    /\ iter' = [iter EXCEPT !["i"] = iter_swap(iter["i"], iter["j"])[1],
                            !["j"] = iter_swap(iter["i"], iter["j"])[2]]
    /\ res' = [op |-> "swap(it)", in |-> <<iter["i"], iter["j"]>>, out |-> Ok(NoVal)]
    /\ UNCHANGED <<checked, mem, strided, view>>

NextIter ==
    \/ \E x \in ViewIds : DefaultConstruct(x)
    \/ \E x \in ViewIds : ConstructArray(x)
    \/ \E x \in ViewIds, args \in EmptyContainerArgs : ConstructContainer(x, args)
    \/ \E i \in IterIds, x \in ViewIds : Begin(i, x)
    \/ \E i \in IterIds, x \in ViewIds : End(i, x)
    \/ \E i \in IterIds, j \in IterIds, k \in 0 .. BufLen : Plus(i, j, k)
    \/ \E i \in IterIds, j \in IterIds, k \in 0 .. BufLen : Minus(i, j, k)
    \/ Difference
    \/ \E op \in CompareOps : Compare(op)
    \/ SwapIters

SpecIter == InitIter /\ [][NextIter]_vars

(***************************************************************************)
(* Claims about the iterators, checked under SpecIter.                     *)
(***************************************************************************)
\* The iterator law on view object x: begin() + k returns, (begin() + k) -
\* begin() is k, and begin() + size() == end(), for every k in [0, size()].
IteratorLaw(x) ==
    \A k \in 0 .. size(view[x]) :
        LET p == iter_plus(begin(x), k)
        IN  /\ p.kind = "ok"
            /\ IsOk(iter_diff(p.val, begin(x)), k)
            /\ (k = size(view[x])) => IsOk(iter_eq(p.val, end(x)), TRUE)

\* The calls made: whether the last call was begin() + k on some view with
\* k in [0, size()], or (begin() + k) - begin().
IsBeginOf(it, x) == it = begin(x)
IsBeginPlus(it, x, k) ==
    it = MkIter(begin(x).parent, begin(x).index + k)

\* C8 as claimed: the iterator law holds for every view (null, empty but not
\* null, non-empty) in both build configurations, and no call of it signals.
C8_Original ==
    /\ res.op = "it+" =>
          \A x \in ViewIds :
              (IsBeginOf(res.in[1], x) /\ res.in[2] <= size(view[x])) =>
                  res.out.kind = "ok"
    /\ res.op = "it-" =>
          \A x \in ViewIds : \A k \in 0 .. size(view[x]) :
              (IsBeginOf(res.in[2], x) /\ IsBeginPlus(res.in[1], x, k)) =>
                  IsOk(res.out, k)

\* C8 as amended: the iterator law holds for every view that is not null
\* (empty or not) in both build configurations, no call of it signals, and
\* the difference and the comparison leave the view and both iterators as
\* they were; on a null view, with the debug checks, begin() + k signals
\* "Incrementing an invalid array iterator!" for every k.
C8_IteratorLawNonNull ==
    /\ \A x \in ViewIds :
          /\ data(view[x]) # NullPtr => IteratorLaw(x)
          /\ (data(view[x]) = NullPtr /\ checked) =>
                \A k \in 0 .. size(view[x]) :
                    IsErr(iter_plus(begin(x), k), MsgIncrementInvalid)
    /\ res.op = "it+" =>
          /\ (res.in[1].parent # NoParent) =>
                IsOk(res.out, MkIter(res.in[1].parent, res.in[1].index + res.in[2]))
          /\ (res.in[1].parent = NoParent /\ checked) =>
                IsErr(res.out, MsgIncrementInvalid)
    /\ res.op = "it-" =>
          /\ res.in = <<iter["i"], iter["j"]>>
          /\ (res.in[1].parent = res.in[2].parent) =>
                IsOk(res.out, res.in[1].index - res.in[2].index)

\* C8 witness: on a non-empty view, (begin() + k) - begin() was computed
\* for a k strictly between 0 and size(), and returned k.
C8_Witness ==
    /\ res.op = "it-"
    /\ \E x \in ViewIds : \E k \in 1 .. (size(view[x]) - 1) :
          /\ data(view[x]) # NullPtr
          /\ IsBeginOf(res.in[2], x)
          /\ IsBeginPlus(res.in[1], x, k)
          /\ IsOk(res.out, k)

\* What each comparison returns on iterators with the same parent.
Expected(op, a, b) ==
    CASE op = "it-" -> a.index - b.index
      [] op = "it==" -> a.index = b.index
      [] op = "it!=" -> a.index # b.index
      [] op = "it<" -> a.index < b.index
      [] op = "it>" -> a.index > b.index
      [] op = "it<=" -> a.index <= b.index
      [] op = "it>=" -> a.index >= b.index

\* C9: with the debug checks, a - b and each of the six comparisons signal
\* CrossViewOperation ("Array iterators belong to different objects!") when
\* the parents of a and b are different objects (two view objects, even ones
\* viewing the same buffer, or a view and no parent), and with the same
\* parent return the difference or comparison of the two indices; the
\* operands are left as they were.
C9_CrossViewSignalsWhenChecked ==
    (checked /\ res.op \in (CompareOps \cup {"it-"})) =>
        LET a == res.in[1]
            b == res.in[2]
        IN  /\ (a.parent # b.parent) => IsErr(res.out, MsgDifferentParents)
            /\ (a.parent = b.parent) => IsOk(res.out, Expected(res.op, a, b))
            /\ res.in = <<iter["i"], iter["j"]>>

\* C9 witness: with the debug checks, a <= b was evaluated on iterators of
\* two distinct view objects that view the same buffer, and signalled.
C9_Witness ==
    /\ checked
    /\ res.op = "it<="
    /\ res.in[1].parent = "a"
    /\ res.in[2].parent = "b"
    /\ view["a"] = view["b"]
    /\ size(view["a"]) > 0
    /\ IsErr(res.out, MsgDifferentParents)

\* C10 as claimed: with the debug checks, swap(a, b) on iterators with
\* different parents signals CrossViewOperation and leaves both unchanged.
C10_Original ==
    (checked /\ res.op = "swap(it)" /\ res.in[1].parent # res.in[2].parent) =>
        /\ IsErr(res.out, MsgDifferentParents)
        /\ iter["i"] = res.in[1]
        /\ iter["j"] = res.in[2]

\* C10 as amended: swap(a, b) never signals, in either build configuration
\* and whatever the parents of a and b: it exchanges the parents and the
\* indices of the two iterators.
C10_SwapExchangesUnconditionally ==
    res.op = "swap(it)" =>
        /\ res.out.kind = "ok"
        /\ iter["i"] = res.in[2]
        /\ iter["j"] = res.in[1]

\* C10 witness: with the debug checks, two iterators of different views, at
\* different indices, were swapped.
C10_Witness ==
    /\ checked
    /\ res.op = "swap(it)"
    /\ res.in[1].parent = "a"
    /\ res.in[2].parent = "b"
    /\ res.in[1].index # res.in[2].index
    /\ res.out.kind = "ok"

(***************************************************************************)
(* Dereferencing an iterator while its parent view object is constructed   *)
(* anew, assigned to, reset and swapped.                                   *)
(***************************************************************************)
\* operator->: operator* with its own message.
iter_arrow(it) ==
    IF checked /\ ~is_dereferenceable(it)
    THEN Err(MsgArrowNotDereferenceable)
    ELSE IF it.parent = NoParent
    THEN UB(NoVal)
    ELSE subscript(view[it.parent], ToSize(it.index))

\* operator==(std::nullptr_t) and operator!=(std::nullptr_t)
iter_is_null(it) == it.parent = NoParent
iter_not_null(it) == ~iter_is_null(it)

\* *i
Deref(i) ==
    /\ \E o \in Outcomes(deref(iter[i]), SizeT) :
          res' = [op |-> "*", in |-> <<iter[i]>>, out |-> o]
    /\ UNCHANGED <<checked, mem, strided, view, iter>>

\* i->
Arrow(i) ==
    /\ \E o \in Outcomes(iter_arrow(iter[i]), SizeT) :
          res' = [op |-> "->", in |-> <<iter[i]>>, out |-> o]
    /\ UNCHANGED <<checked, mem, strided, view, iter>>

\* i != nullptr
NotNull(i) ==
    /\ res' = [op |-> "!=nullptr", in |-> <<iter[i]>>, out |-> Ok(iter_not_null(iter[i]))]
    /\ UNCHANGED <<checked, mem, strided, view, iter>>

NextDeref ==
    \/ \E x \in ViewIds : ConstructArray(x)
    \/ \E args \in PtrCountArgs : ConstructPtrCount("b", args)
    \/ \E x \in ViewIds, y \in ViewIds : Assign(x, y)
    \/ \E x \in ViewIds : Reset(x)
    \/ \E x \in ViewIds, y \in ViewIds : SwapViews(x, y)
    \/ \E x \in ViewIds : Begin("i", x)
    \/ \E x \in ViewIds : End("i", x)
    \/ Plus("i", "i", 1)
    \/ Minus("i", "i", 1)
    \/ Deref("i")
    \/ Arrow("i")
    \/ NotNull("i")

SpecDeref == InitIter /\ [][NextDeref]_vars

(***************************************************************************)
(* Claims about dereferencing, checked under SpecDeref.                    *)
(***************************************************************************)
\* The index of it lies in [0, size()) of its parent as the parent is now.
InRange(it) ==
    /\ it.parent # NoParent
    /\ 0 <= it.index
    /\ it.index < size(view[it.parent])

\* The message operator* or operator-> hands to ARRAY_VIEW_ERROR.
DerefMsg(op) == IF op = "*" THEN MsgNotDereferenceable ELSE MsgArrowNotDereferenceable

\* C11 as claimed: in both build configurations, operator* and operator-> on
\* an iterator with no parent or with an index outside [0, parent.size())
\* signal an error, and an element is accessed only through an iterator with
\* a parent and an index inside [0, parent.size()).
C11_Original ==
    res.op \in {"*", "->"} =>
        /\ ~InRange(res.in[1]) => res.out.kind = "error"
        /\ res.out.kind # "error" => InRange(res.in[1])

\* C11 as amended: the test of operator* and operator-> is compiled in only
\* with the debug checks.  With them, an iterator with no parent or with an
\* index outside [0, parent.size()) signals "iterator not dereferenceable!",
\* and a call that returns has a parent, an index inside [0, parent.size())
\* and returns the element at the parent's pointer + index.  Without them
\* neither operator signals anything: with a parent whose pointer is not
\* null it accesses pointer + index whatever the index (an element of the
\* buffer, or undefined), and with no parent the access is undefined.  An
\* iterator with no parent compares equal to nullptr in both configurations.
C11_DerefValidatesWhenChecked ==
    /\ res.op \in {"*", "->"} =>
          LET it == res.in[1]
          IN  /\ (checked /\ ~InRange(it)) => IsErr(res.out, DerefMsg(res.op))
              /\ (checked /\ res.out.kind # "error") =>
                    /\ InRange(it)
                    /\ IsOk(res.out, data(view[it.parent]) + it.index)
              /\ checked => res.out.kind # "ub"
              /\ ~checked => res.out.kind # "error"
              /\ (~checked /\ it.parent = NoParent) => res.out.kind = "ub"
              /\ (~checked /\ it.parent # NoParent /\ res.out.kind = "ok") =>
                    /\ data(view[it.parent]) # NullPtr
                    /\ res.out.val = data(view[it.parent]) + ToSize(it.index)
                    /\ res.out.val \in BufAddrs
              /\ (~checked /\ InRange(it) /\ data(view[it.parent]) # NullPtr) =>
                    IsOk(res.out, data(view[it.parent]) + it.index)
              /\ iter["i"] = it
    /\ res.op = "!=nullptr" =>
          res.out = Ok(res.in[1].parent # NoParent)

\* C11 witness: with the debug checks, operator-> was applied to the end()
\* iterator of a non-empty view and signalled.
C11_Witness ==
    /\ checked
    /\ res.op = "->"
    /\ res.in[1].parent # NoParent
    /\ size(view[res.in[1].parent]) > 0
    /\ res.in[1].index = size(view[res.in[1].parent])
    /\ IsErr(res.out, MsgArrowNotDereferenceable)

\* C15 as claimed: an iterator is bound to its parent view object.  Whatever
\* reset(), assignment or swap() does to the views, an iterator keeps its
\* parent and its index; it is dereferenceable exactly when its index is in
\* [0, size()) of its parent as the parent is now, and operator* and
\* operator-> then yield the element at the parent's current pointer + index;
\* an iterator with a parent compares != nullptr even after parent.reset().
C15_IteratorBoundToParentObject ==
    /\ [][view' # view => iter' = iter]_vars
    /\ [](\A i \in IterIds : is_dereferenceable(iter[i]) <=> InRange(iter[i]))
    /\ []((res.op \in {"*", "->"} /\ InRange(res.in[1])) =>
             IsOk(res.out, data(view[res.in[1].parent]) + res.in[1].index))
    /\ []((res.op = "!=nullptr" /\ res.in[1].parent # NoParent) =>
             IsOk(res.out, TRUE))

(***************************************************************************)
(* One strided_array_view<T, OffsetBytes, StrideBytes> object: constructed *)
(* over structures in memory, then read through its accessors.             *)
(***************************************************************************)
\* OffsetBytes, StrideBytes and sizeof(StructuredType).
Offsets == 0 .. BufLen
Strides == 1 .. BufLen

\* What a caller passes to strided_array_view(array_ptr, size_in_items) for
\* structures of struct_bytes bytes: nullptr with any count, or the address
\* of size_in_items structures that lie in the address space.
StridedArgs ==
    { a \in SizeT \X SizeT \X Strides :
          /\ a[2] * a[3] < Modulus
          /\ a[1] # NullPtr => a[1] + a[2] * a[3] <= Modulus }

InitStrided ==
    /\ checked \in BOOLEAN
    /\ mem = [x \in BufAddrs |-> FALSE]
    /\ view = [x \in ViewIds |-> DefaultView]
    /\ iter = [x \in IterIds |-> DefaultIter]
    /\ \E o \in Offsets, s \in Strides : strided = DefaultStrided(o, s)
    /\ res = NoRes

ConstructStrided(args) ==
    /\ res.op = "none"
    /\ strided' = strided_ctor(args[1], args[2], args[3],
                               offset_bytes(strided), stride_bytes(strided))
    /\ res' = [op |-> "strided_array_view", in |-> args, out |-> Ok(NoVal)]
    /\ UNCHANGED <<checked, mem, view, iter>>

StridedAt(index) ==
    /\ res.op = "none"
    /\ \E o \in Outcomes(strided_at(strided, index), SizeT) :
          res' = [op |-> "s.at", in |-> <<index>>, out |-> o]
    /\ UNCHANGED <<checked, mem, view, iter, strided>>

StridedSubscript(index) ==
    /\ res.op = "none"
    /\ \E o \in Outcomes(strided_subscript(strided, index), SizeT) :
          res' = [op |-> "s[]", in |-> <<index>>, out |-> o]
    /\ UNCHANGED <<checked, mem, view, iter, strided>>

StridedRawPtr(index) ==
    /\ res.op = "none"
    /\ res' = [op |-> "s.get_item_raw_ptr", in |-> <<index>>,
               out |-> get_item_raw_ptr(strided, index)]
    /\ UNCHANGED <<checked, mem, view, iter, strided>>

StridedFront ==
    /\ res.op = "none"
    /\ \E o \in Outcomes(strided_front(strided), SizeT) :
          res' = [op |-> "s.front", in |-> <<>>, out |-> o]
    /\ UNCHANGED <<checked, mem, view, iter, strided>>

StridedBack ==
    /\ res.op = "none"
    /\ \E o \in Outcomes(strided_back(strided), SizeT) :
          res' = [op |-> "s.back", in |-> <<>>, out |-> o]
    /\ UNCHANGED <<checked, mem, view, iter, strided>>

\* The caller takes the result and goes on to its next call.
StridedReturn ==
    /\ res.op # "none"
    /\ res' = NoRes
    /\ UNCHANGED <<checked, mem, view, iter, strided>>

NextStrided ==
    \/ \E args \in StridedArgs : ConstructStrided(args)
    \/ \E index \in SizeT : StridedAt(index)
    \/ \E index \in SizeT : StridedSubscript(index)
    \/ \E index \in SizeT : StridedRawPtr(index)
    \/ StridedFront
    \/ StridedBack
    \/ StridedReturn

SpecStrided == InitStrided /\ [][NextStrided]_vars

(***************************************************************************)
(* Claims about the strided view, checked under SpecStrided.               *)
(***************************************************************************)
\* The address of the field at offset_bytes inside structure i.
FieldAddress(v, i) == strided_data(v) + i * stride_bytes(v) + offset_bytes(v)

\* C12: a strided view with (offset = F, stride = S), F < S, constructed over
\* N structures of S bytes has size_bytes() == N * S and size() == N; for
\* every i in [0, size()) of a non-null view at(i), operator[](i) and
\* get_item_raw_ptr(i) use the address base + i * S + F; with size() > 0,
\* front() is element 0 and back() is element size() - 1.
C12_StridedAddressing ==
    offset_bytes(strided) < stride_bytes(strided) =>
        /\ (res.op = "strided_array_view" /\ res.in[3] = stride_bytes(strided)) =>
              /\ strided_data(strided) = res.in[1]
              /\ size_bytes(strided) = res.in[2] * stride_bytes(strided)
              /\ strided_size(strided) = res.in[2]
        /\ (res.op \in {"s.at", "s[]", "s.get_item_raw_ptr"}
              /\ strided_data(strided) # NullPtr
              /\ res.in[1] < strided_size(strided)) =>
              IsOk(res.out, FieldAddress(strided, res.in[1]))
        /\ (res.op = "s.front" /\ strided_data(strided) # NullPtr
              /\ strided_size(strided) > 0) =>
              /\ IsOk(res.out, FieldAddress(strided, 0))
              /\ res.out = strided_at(strided, 0)
        /\ (res.op = "s.back" /\ strided_data(strided) # NullPtr
              /\ strided_size(strided) > 0) =>
              /\ IsOk(res.out, FieldAddress(strided, strided_size(strided) - 1))
              /\ res.out = strided_at(strided, strided_size(strided) - 1)

\* C12 witness: back() returned the field of the last of two or more
\* structures, the field not being at the start of the structure.
C12_Witness ==
    /\ res.op = "s.back"
    /\ strided_data(strided) # NullPtr
    /\ strided_size(strided) >= 2
    /\ offset_bytes(strided) > 0
    /\ offset_bytes(strided) < stride_bytes(strided)
    /\ IsOk(res.out, FieldAddress(strided, strided_size(strided) - 1))

\* C13 as claimed: in both build configurations at(i), front() and back()
\* signal on a null strided view ("null pointer") and on a view with
\* size() == 0, and at(i) signals for i >= size(); front() and back() on an
\* empty or null view never compute or access an element address.
C13_Original ==
    res.op \in {"s.at", "s.front", "s.back"} =>
        /\ strided_data(strided) = NullPtr => IsErr(res.out, MsgStridedNull)
        /\ strided_size(strided) = 0 => res.out.kind = "error"
        /\ (res.op = "s.at" /\ res.in[1] >= strided_size(strided)) =>
              res.out.kind = "error"

\* C13 as amended: at(i) validates in both build configurations: on a null
\* view it signals "null pointer", on a non-null view with i >= size() (so
\* for every i when size() == 0) it signals "index is out-of-bounds", and
\* otherwise it accesses element i.  front() and back() are operator[](0)
\* and operator[](size() - 1) and validate like operator[], with the debug
\* checks only: with them they signal on a null view and on a non-null view
\* with size() == 0; without them front(), back() and operator[] signal
\* nothing and compute the element address whatever the view is.
\* get_item_raw_ptr never validates.
C13_StridedAtAlwaysValidates ==
    /\ res.op = "s.at" =>
          /\ strided_data(strided) = NullPtr => IsErr(res.out, MsgStridedNull)
          /\ (strided_data(strided) # NullPtr /\ res.in[1] >= strided_size(strided)) =>
                IsErr(res.out, MsgStridedAtOutOfBounds)
          /\ (strided_data(strided) # NullPtr /\ res.in[1] < strided_size(strided)) =>
                res.out.kind # "error"
    /\ res.op \in {"s.front", "s.back", "s[]"} =>
          /\ (checked /\ strided_data(strided) = NullPtr) =>
                IsErr(res.out, MsgStridedNull)
          /\ (checked /\ strided_data(strided) # NullPtr /\ res.op # "s[]"
                /\ strided_size(strided) = 0) =>
                IsErr(res.out, MsgStridedSubscriptOutOfBounds)
          /\ (checked /\ strided_data(strided) # NullPtr /\ res.op = "s[]"
                /\ res.in[1] >= strided_size(strided)) =>
                IsErr(res.out, MsgStridedSubscriptOutOfBounds)
          /\ ~checked => res.out.kind # "error"
          /\ (~checked /\ res.op = "s.front" /\ res.out.kind = "ok") =>
                res.out.val = FieldAddress(strided, 0)
          /\ (~checked /\ res.op = "s.back" /\ res.out.kind = "ok") =>
                res.out.val =
                    FieldAddress(strided, (strided_size(strided) - 1) % Modulus) % Modulus
    /\ res.op = "s.get_item_raw_ptr" => res.out.kind = "ok"

\* C13 witness: without the debug checks, at(i) on a non-null view whose
\* derived size() is 0 signalled "index is out-of-bounds".
C13_Witness ==
    /\ ~checked
    /\ res.op = "s.at"
    /\ strided_data(strided) # NullPtr
    /\ strided_size(strided) = 0
    /\ IsErr(res.out, MsgStridedAtOutOfBounds)

(***************************************************************************)
(* Three view objects over the caller's buffer, compared with one another. *)
(***************************************************************************)
EquivIds == {"a", "b", "c"}

InitEquiv ==
    /\ checked \in BOOLEAN
    /\ mem \in [BufAddrs -> BOOLEAN]
    /\ view = [x \in EquivIds |-> DefaultView]
    /\ iter = [x \in IterIds |-> DefaultIter]
    /\ strided = DefaultStrided(0, 1)
    /\ res = NoRes

\* x is constructed from a pointer and a count, between two comparisons.
EquivConstruct(x, args) ==
    /\ res.op = "none"
    /\ ConstructPtrCount(x, args)

\* x == y
EquivEqual(x, y) ==
    /\ res.op = "none"
    /\ Equal(x, y)

\* x != y
EquivNotEqual(x, y) ==
    /\ res.op = "none"
    /\ NotEqual(x, y)

NextEquiv ==
    \/ \E x \in EquivIds, args \in PtrCountArgs : EquivConstruct(x, args)
    \/ \E x \in EquivIds, y \in EquivIds : EquivEqual(x, y)
    \/ \E x \in EquivIds, y \in EquivIds : EquivNotEqual(x, y)
    \/ Return

SpecEquiv == InitEquiv /\ [][NextEquiv]_vars

\* C16 as claimed: operator== is an equivalence relation on the views: when
\* x == y was evaluated, it returned true if x and y are the same view, and
\* if it returned true then y == x returns true, and for every view z with
\* y == z true, x == z returns true; operator!= returns its negation.
C16_EqualityIsEquivalence ==
    res.op \in {"==", "!="} =>
        \A x \in EquivIds, y \in EquivIds :
            res.in = <<view[x], view[y]>> =>
                LET eq == IF res.op = "==" THEN res.out ELSE Negate(res.out)
                IN  /\ x = y => IsOk(eq, TRUE)
                    /\ IsOk(eq, TRUE) => IsOk(view_eq(y, x).out, TRUE)
                    /\ \A z \in EquivIds :
                          (IsOk(eq, TRUE) /\ IsOk(view_eq(y, z).out, TRUE)) =>
                              IsOk(view_eq(x, z).out, TRUE)

====
